---- MODULE Spec2Model ----
(***************************************************************************)
(* Model of the track search engine of xl/trax/search.py: the query        *)
(* tokenizer, the token structurer (__red), the token optimizer, the       *)
(* matcher compiler (__tokens_to_matchers), the matcher classes and the    *)
(* search_tracks generator.                                                *)
(*                                                                         *)
(* Python values are modelled as follows.  A string is a sequence of       *)
(* one-character strings.  A token is a record: Str(s) for a Python str,   *)
(* Lst(l) for a Python list, so that the code's indexing of "whatever the  *)
(* token is" (token[0], token[1], len(token), tokens[1:]) is defined on    *)
(* both, as it is in Python.  None is the record NoneItem.                  *)
(***************************************************************************)
EXTENDS Integers, Sequences, FiniteSets, TLC

VARIABLES
    search,          \* the search string
    case_sensitive,  \* TracksMatcher.case_sensitive
    keyword_tags,    \* TracksMatcher.keyword_tags
    trackiter,       \* the tracks handed to search_tracks
    extra,           \* searches of the other TracksMatchers in trackmatchers
    pc,              \* how far the search has come
    tokens,          \* the local variable tokens of TracksMatcher.__init__
    newsearch,       \* the token in progress when the tokenizer stops
    exc,             \* the exception the caller is left with, or "none"
    matchers,        \* TracksMatcher.matchers
    n,               \* the number of tracks taken from trackiter
    yielded,         \* the SearchResultTracks yielded so far
    mode,            \* how two passes share a TracksMatcher
    tags,            \* the field tags of each matcher of the shared one
    running,         \* the generator that is between next() and yield
    pass             \* the two passes over a shared TracksMatcher

vars == <<search, case_sensitive, keyword_tags, trackiter, extra,
          pc, tokens, newsearch, exc, matchers, n, yielded,
          mode, tags, running, pass>>

inputs == <<search, case_sensitive, keyword_tags, trackiter, extra>>

shared == <<mode, tags, running, pass>>

-----------------------------------------------------------------------------
(* Bounds of the model *)

MaxLen == 3

RecursionLimit == 7

-----------------------------------------------------------------------------
(* Python values *)

Str(s) == [k |-> "str", s |-> s, l |-> <<>>]

Lst(l) == [k |-> "list", s |-> <<>>, l |-> l]

NoneItem == [none |-> TRUE, s |-> <<>>]

Item(s) == [none |-> FALSE, s |-> s]

Ok(v) == [exc |-> "none", val |-> v]

Raise(e) == [exc |-> e, val |-> <<>>]

Min(a, b) == IF a < b THEN a ELSE b

Max(a, b) == IF a > b THEN a ELSE b

\* seq[lo:hi] of Python for a sequence, 0-based, negative bounds counted
\* from the end, both clamped to the sequence
PySlice(seq, lo, hi) ==
    LET len == Len(seq)
        a == IF lo < 0 THEN Max(lo + len, 0) ELSE Min(lo, len)
        b == IF hi < 0 THEN Max(hi + len, 0) ELSE Min(hi, len)
    IN  IF a >= b THEN <<>> ELSE SubSeq(seq, a + 1, b)

\* len(v) of a str or a list
PyLen(v) == IF v.k = "str" THEN Len(v.s) ELSE Len(v.l)

\* v[i] of a str or a list for an index that is in range (0-based)
PyIndex(v, i) == IF v.k = "str" THEN Str(<<v.s[i + 1]>>) ELSE v.l[i + 1]

\* v[1:] of a str or a list
PyTail(v) ==
    IF v.k = "str" THEN Str(PySlice(v.s, 1, Len(v.s)))
    ELSE Lst(PySlice(v.l, 1, Len(v.l)))

\* the position (0-based) of the first occurrence of sub in s, -1 if none
RECURSIVE FindFrom(_, _, _)
FindFrom(s, sub, i) ==
    IF i + Len(sub) > Len(s) THEN -1
    ELSE IF SubSeq(s, i + 1, i + Len(sub)) = sub THEN i
    ELSE FindFrom(s, sub, i + 1)

Find(s, sub) == FindFrom(s, sub, 0)

\* s.strip(c) for a single character c: every leading and trailing c goes
RECURSIVE LStrip(_, _)
LStrip(s, c) ==
    IF s # <<>> /\ Head(s) = c THEN LStrip(Tail(s), c) ELSE s

RECURSIVE RStrip(_, _)
RStrip(s, c) ==
    IF s # <<>> /\ s[Len(s)] = c THEN RStrip(SubSeq(s, 1, Len(s) - 1), c) ELSE s

Strip(s, c) == RStrip(LStrip(s, c), c)

\* string.lower on the letters of the model's alphabet
LowerChar(c) ==
    CASE c = "T" -> "t"
      [] c = "N" -> "n"
      [] c = "I" -> "i"
      [] c = "L" -> "l"
      [] c = "U" -> "u"
      [] c = "A" -> "a"
      [] OTHER -> c

Lower(cs, s) == IF cs THEN s ELSE [i \in 1..Len(s) |-> LowerChar(s[i])]

-----------------------------------------------------------------------------
(* TracksMatcher.__tokenize_query *)

\* one round of the while loop.  The handler of the IndexError of a
\* backslash at the very end calls traceback.print_exc(), and the module
\* binds no name traceback.
TokenizeStep(st, padded) ==
    LET c == padded[st.n + 1]
    IN  IF c = "\\"
        THEN [st EXCEPT !.n = st.n + 2,
                        !.newsearch = IF st.n + 1 < Len(padded)
                                      THEN st.newsearch \o <<padded[st.n + 2]>>
                                      ELSE st.newsearch,
                        !.exc = IF st.n + 1 < Len(padded) THEN "none"
                                ELSE "NameError"]
        ELSE IF st.in_quotes /\ c # "\""
        THEN [st EXCEPT !.n = st.n + 1, !.newsearch = st.newsearch \o <<c>>]
        ELSE IF c = "\""
        THEN [st EXCEPT !.n = st.n + 1, !.in_quotes = ~st.in_quotes]
        ELSE IF c \in {"|", "!", "(", ")"}
        THEN [st EXCEPT !.n = st.n + 1, !.newsearch = st.newsearch \o <<c>>]
        ELSE IF c = " "
        THEN [st EXCEPT !.n = st.n + 1,
                        !.tokens = Append(st.tokens, Str(st.newsearch)),
                        !.newsearch = <<>>]
        ELSE [st EXCEPT !.n = st.n + 1, !.newsearch = st.newsearch \o <<c>>]

RECURSIVE TokenizeLoop(_, _)
TokenizeLoop(st, padded) ==
    IF st.n < Len(padded) /\ st.exc = "none"
    THEN TokenizeLoop(TokenizeStep(st, padded), padded)
    ELSE st

\* the state of the scan when the while loop is left
tokenize_scan(s) ==
    TokenizeLoop([tokens |-> <<>>, newsearch |-> <<>>, in_quotes |-> FALSE,
                  n |-> 0, exc |-> "none"],
                 <<" ">> \o s \o <<" ">>)

tokenize_query(s) ==
    LET st == tokenize_scan(s)
    IN  IF st.exc = "none" THEN Ok(st.tokens) ELSE Raise(st.exc)

-----------------------------------------------------------------------------
(* TracksMatcher.__red *)

OpenParen == Str(<<"(">>)

CloseParen == Str(<<")">>)

NotOp == Str(<<"!">>)

OrOp == Str(<<"|">>)

\* x in tokens
Contains(toks, x) == \E i \in 1..Len(toks) : toks[i] = x

\* tokens.index(x), for an x that is in tokens
RECURSIVE IndexOf(_, _, _)
IndexOf(toks, x, i) == IF toks[i + 1] = x THEN i ELSE IndexOf(toks, x, i + 1)

\* None for start and end of the parenthesis scan
NoIndex == -1

\* Python truth of an index variable: neither None nor 0
Truthy(i) == i # NoIndex /\ i # 0

\* the for loop over the tokens that finds the parentheses; count is the
\* position of the token looked at
RECURSIVE ParenScan(_, _, _, _, _)
ParenScan(toks, count, start, end, num_found) ==
    IF count >= Len(toks) THEN [start |-> start, end |-> end]
    ELSE
      LET t == toks[count + 1]
          isOpen == t = OpenParen
          isClose == t = CloseParen
          start2 == IF isOpen /\ start = NoIndex THEN count ELSE start
          end2 == IF isClose /\ end = NoIndex /\ num_found = 0 THEN count ELSE end
          found2 == IF isOpen /\ start # NoIndex THEN num_found + 1
                    ELSE IF isClose /\ ~(end = NoIndex /\ num_found = 0)
                    THEN num_found - 1
                    ELSE num_found
      IN  IF Truthy(start2) /\ Truthy(end2)
          THEN [start |-> start2, end |-> end2]
          ELSE ParenScan(toks, count + 1, start2, end2, found2)

\* __red(tokens) called at recursion depth `depth`; the interpreter gives
\* up with a RuntimeError when the depth passes RecursionLimit
RECURSIVE red(_, _)
red(toks, depth) ==
    IF depth > RecursionLimit THEN Raise("RuntimeError")
    ELSE IF toks = <<>> THEN Ok(<<>>)
    ELSE IF Contains(toks, OpenParen) THEN
      LET se == ParenScan(toks, 0, NoIndex, NoIndex, 0)
          before == PySlice(toks, 0, se.start)
          inside == red(PySlice(toks, se.start + 1,
                                IF se.end = NoIndex THEN Len(toks) ELSE se.end),
                        depth + 1)
      IN  IF inside.exc # "none" THEN inside
          ELSE IF se.end = NoIndex THEN Raise("TypeError")
          ELSE red(before \o <<Lst(<<OpenParen, Lst(inside.val)>>)>>
                          \o PySlice(toks, se.end + 1, Len(toks)),
                   depth + 1)
    ELSE IF Contains(toks, NotOp) THEN
      LET start == IndexOf(toks, NotOp, 0)
          end == start + 2
          before == PySlice(toks, 0, start)
          inside == PySlice(toks, start + 1, end)
          after == PySlice(toks, end, Len(toks))
      IN  red(before \o <<Lst(<<NotOp, Lst(inside)>>)>> \o after, depth + 1)
    ELSE IF Contains(toks, OrOp) THEN
      LET start == IndexOf(toks, OrOp, 0)
      IN  IF start + 1 >= Len(toks) THEN Raise("IndexError")
          ELSE
            LET left == IF start = 0 THEN toks[Len(toks)] ELSE toks[start]
                inside == <<left, toks[start + 2]>>
                before == PySlice(toks, 0, start - 1)
                after == PySlice(toks, start + 2, Len(toks))
            IN  red(before \o <<Lst(<<OrOp, Lst(inside)>>)>> \o after, depth + 1)
    ELSE Ok(toks)

-----------------------------------------------------------------------------
(* TracksMatcher.__optimize_tokens *)

\* list.sort(key=len) is a stable sort: insert x behind the last element
\* whose length is not larger
RECURSIVE InsertByLen(_, _)
InsertByLen(sorted, x) ==
    IF sorted = <<>> THEN <<x>>
    ELSE IF PyLen(sorted[Len(sorted)]) <= PyLen(x) THEN Append(sorted, x)
    ELSE Append(InsertByLen(SubSeq(sorted, 1, Len(sorted) - 1), x),
                sorted[Len(sorted)])

RECURSIVE SortByLen(_, _)
SortByLen(toks, i) ==
    IF i = 0 THEN <<>> ELSE InsertByLen(SortByLen(toks, i - 1), toks[i])

optimize_tokens(toks) == SortByLen(toks, Len(toks))

-----------------------------------------------------------------------------
(* The matcher classes *)

\* _ExactMatcher(tag, content, lower)
ExactMatcher(tag, content) ==
    [k |-> "exact", tag |-> tag, content |-> content, subs |-> <<>>]

\* _InMatcher(tag, content, lower)
InMatcher(tag, content) ==
    [k |-> "in", tag |-> tag, content |-> Item(content), subs |-> <<>>]

\* _NotMetaMatcher(matcher)
NotMetaMatcher(m) ==
    [k |-> "not", tag |-> <<>>, content |-> NoneItem, subs |-> <<m>>]

\* _OrMetaMatcher(left, right)
OrMetaMatcher(left, right) ==
    [k |-> "or", tag |-> <<>>, content |-> NoneItem, subs |-> <<left, right>>]

\* _MultiMetaMatcher(matchers)
MultiMetaMatcher(ms) ==
    [k |-> "multi", tag |-> <<>>, content |-> NoneItem, subs |-> ms]

\* _ManyMultiMetaMatcher(matchers)
ManyMultiMetaMatcher(ms) ==
    [k |-> "many", tag |-> <<>>, content |-> NoneItem, subs |-> ms]

\* the class attribute `tag = None` of the meta matchers
TagIsNone(m) == m.k \in {"not", "or", "multi", "many"}

\* hasattr(ma, 'tags')
HasTags(m) == m.k = "many"

\* track.get_tag_search(tag, format=False): the value of the tag, None when
\* the track does not have it.  A value is [k, s, l]: a str, a list of str,
\* or None.
NoneVal == [k |-> "none", s |-> <<>>, l |-> <<>>]

StrVal(s) == [k |-> "str", s |-> s, l |-> <<>>]

ListVal(l) == [k |-> "list", s |-> <<>>, l |-> l]

get_tag_search(track, tag) ==
    IF tag \in DOMAIN track THEN track[tag] ELSE NoneVal

NullString == <<"_", "_", "n", "u", "l", "l", "_", "_">>

\* the list of items _Matcher.match walks through
MatchItems(track, tag) ==
    LET vals == get_tag_search(track, tag)
    IN  IF vals.k = "list" THEN [i \in 1..Len(vals.l) |-> Item(vals.l[i])]
        ELSE IF vals.k = "none" \/ vals.s = NullString THEN <<NoneItem>>
        ELSE <<Item(vals.s)>>

\* lower(item) inside try/except: None stays None
LowerItem(cs, item) == IF item.none THEN item ELSE Item(Lower(cs, item.s))

\* _ExactMatcher.matches
ExactMatches(m, value) == value = m.content

\* _InMatcher.matches
InMatches(m, value) ==
    IF value.none \/ value.s = <<>> THEN FALSE
    ELSE Find(value.s, m.content.s) # -1

\* _Matcher.match
LeafMatch(m, track, cs) ==
    LET items == MatchItems(track, m.tag)
    IN  \E i \in 1..Len(items) :
          IF m.k = "exact" THEN ExactMatches(m, LowerItem(cs, items[i]))
          ELSE InMatches(m, LowerItem(cs, items[i]))

\* the value of self.tags after _ManyMultiMetaMatcher.match
ManyTags(m, track, cs) ==
    {m.subs[i].tag : i \in {j \in 1..Len(m.subs) :
                               /\ LeafMatch(m.subs[j], track, cs)
                               /\ m.subs[j].tag # <<>>}}

\* match of any matcher
RECURSIVE Match(_, _, _)
Match(m, track, cs) ==
    CASE m.k \in {"exact", "in"} -> LeafMatch(m, track, cs)
      [] m.k = "not" -> ~Match(m.subs[1], track, cs)
      [] m.k = "or" -> Match(m.subs[1], track, cs) \/ Match(m.subs[2], track, cs)
      [] m.k = "multi" -> \A i \in 1..Len(m.subs) : Match(m.subs[i], track, cs)
      [] m.k = "many" -> ManyTags(m, track, cs) # {}

\* on_tags with the tags of seq appended that it does not hold yet
RECURSIVE AppendNew(_, _)
AppendNew(on_tags, seq) ==
    IF seq = <<>> THEN on_tags
    ELSE AppendNew(IF \E i \in 1..Len(on_tags) : on_tags[i] = Head(seq)
                   THEN on_tags ELSE Append(on_tags, Head(seq)),
                   Tail(seq))

\* the elements of seq that are in the set S, in the order of seq
RECURSIVE Restrict(_, _)
Restrict(seq, S) ==
    IF seq = <<>> THEN <<>>
    ELSE IF Head(seq) \in S THEN <<Head(seq)>> \o Restrict(Tail(seq), S)
    ELSE Restrict(Tail(seq), S)

\* TracksMatcher.match with the break lost: a matcher that fails is passed
\* over unless it is the last one
RECURSIVE TracksMatcher_match_last(_, _, _, _, _, _)
TracksMatcher_match_last(ms, i, track, cs, on_tags, order) ==
    IF i > Len(ms) THEN [res |-> TRUE, on_tags |-> on_tags]
    ELSE IF ~Match(ms[i], track, cs)
    THEN IF i = Len(ms) THEN [res |-> FALSE, on_tags |-> on_tags]
         ELSE TracksMatcher_match_last(ms, i + 1, track, cs, on_tags, order)
    ELSE TracksMatcher_match_last(ms, i + 1, track, cs,
           IF ~TagIsNone(ms[i]) THEN AppendNew(on_tags, <<ms[i].tag>>)
           ELSE IF HasTags(ms[i])
           THEN AppendNew(on_tags, Restrict(order, ManyTags(ms[i], track, cs)))
           ELSE on_tags,
           order)

\* TracksMatcher.match without the tests `not in srtrack.on_tags`
RECURSIVE TracksMatcher_match_dups(_, _, _, _, _, _)
TracksMatcher_match_dups(ms, i, track, cs, on_tags, order) ==
    IF i > Len(ms) THEN [res |-> TRUE, on_tags |-> on_tags]
    ELSE IF ~Match(ms[i], track, cs) THEN [res |-> FALSE, on_tags |-> on_tags]
    ELSE TracksMatcher_match_dups(ms, i + 1, track, cs,
           IF ~TagIsNone(ms[i]) THEN Append(on_tags, ms[i].tag)
           ELSE IF HasTags(ms[i])
           THEN on_tags \o Restrict(order, ManyTags(ms[i], track, cs))
           ELSE on_tags,
           order)

\* TracksMatcher.match on the matchers ms from position i on; order is the
\* order in which iterating a set of tags gives its elements.  The result is
\* the return value and the on_tags of the SearchResultTrack afterwards.
RECURSIVE TracksMatcher_match(_, _, _, _, _, _)
TracksMatcher_match(ms, i, track, cs, on_tags, order) ==
    IF i > Len(ms) THEN [res |-> TRUE, on_tags |-> on_tags]
    ELSE IF ~Match(ms[i], track, cs) THEN [res |-> FALSE, on_tags |-> on_tags]
    ELSE TracksMatcher_match(ms, i + 1, track, cs,
           IF ~TagIsNone(ms[i]) THEN AppendNew(on_tags, <<ms[i].tag>>)
           ELSE IF HasTags(ms[i])
           THEN AppendNew(on_tags, Restrict(order, ManyTags(ms[i], track, cs)))
           ELSE on_tags,
           order)

-----------------------------------------------------------------------------
(* TracksMatcher.__tokens_to_matchers *)

\* one _InMatcher per keyword tag, for a plain keyword
RECURSIVE KeywordMatchers(_, _)
KeywordMatchers(kt, content) ==
    IF kt = <<>> THEN <<>>
    ELSE <<InMatcher(Head(kt), content)>> \o KeywordMatchers(Tail(kt), content)

\* the matcher of a normal token, a non-empty str
NormalToken(s, cs, kt) ==
    IF Find(s, <<"=", "=">>) # -1
    THEN LET at == Find(s, <<"=", "=">>)
             tag == SubSeq(s, 1, at)
             content == SubSeq(s, at + 3, Len(s))
         IN  ExactMatcher(tag, IF content = NullString THEN NoneItem
                               ELSE Item(Lower(cs, content)))
    ELSE IF Find(s, <<"=">>) # -1
    THEN LET at == Find(s, <<"=">>)
             tag == SubSeq(s, 1, at)
             content == Strip(Strip(SubSeq(s, at + 2, Len(s)), " "), "\"")
         IN  InMatcher(tag, Lower(cs, content))
    ELSE ManyMultiMetaMatcher(
             KeywordMatchers(kt, Lower(cs, Strip(Strip(s, " "), "\""))))

\* __tokens_to_matchers(tokens, matchers); toks is the Python value passed
\* as tokens, a list or (from token[1] of a str) a str
RECURSIVE tokens_to_matchers(_, _, _, _)
tokens_to_matchers(toks, ms, cs, kt) ==
    IF PyLen(toks) = 0 THEN Ok(ms)
    ELSE
      LET first == PyIndex(toks, 0)
          rest == PyTail(toks)
      IN  IF first.k = "list" THEN
            LET token == IF Len(first.l) = 1 THEN first.l[1] ELSE first
            IN  IF PyLen(token) = 0 THEN Raise("IndexError")
                ELSE IF PyIndex(token, 0) = NotOp THEN
                  IF PyLen(token) < 2 THEN Raise("IndexError")
                  ELSE
                    LET nots == tokens_to_matchers(PyIndex(token, 1), <<>>, cs, kt)
                    IN  IF nots.exc # "none" THEN nots
                        ELSE tokens_to_matchers(rest,
                               Append(ms, NotMetaMatcher(MultiMetaMatcher(nots.val))),
                               cs, kt)
                ELSE IF PyIndex(token, 0) = OrOp THEN
                  IF PyLen(token) < 2 \/ PyLen(PyIndex(token, 1)) < 1
                  THEN Raise("IndexError")
                  ELSE
                    LET operands == PyIndex(token, 1)
                        left == tokens_to_matchers(Lst(<<PyIndex(operands, 0)>>),
                                                   <<>>, cs, kt)
                    IN  IF left.exc # "none" THEN left
                        ELSE IF PyLen(operands) < 2 THEN Raise("IndexError")
                        ELSE
                          LET right == tokens_to_matchers(
                                         Lst(<<PyIndex(operands, 1)>>), <<>>, cs, kt)
                          IN  IF right.exc # "none" THEN right
                              ELSE tokens_to_matchers(rest,
                                     Append(ms, OrMetaMatcher(
                                                  MultiMetaMatcher(left.val),
                                                  MultiMetaMatcher(right.val))),
                                     cs, kt)
                ELSE IF PyIndex(token, 0) = OpenParen THEN
                  IF PyLen(token) < 2 THEN Raise("IndexError")
                  ELSE
                    LET inner == tokens_to_matchers(Lst(<<PyIndex(token, 1)>>),
                                                    <<>>, cs, kt)
                    IN  IF inner.exc # "none" THEN inner
                        ELSE tokens_to_matchers(rest,
                               Append(ms, MultiMetaMatcher(inner.val)), cs, kt)
                \* logger.warning("Bad search token"): the module binds no
                \* name logger
                ELSE Raise("NameError")
          ELSE IF first.s = <<>> THEN tokens_to_matchers(rest, ms, cs, kt)
          ELSE tokens_to_matchers(rest,
                                  Append(ms, NormalToken(first.s, cs, kt)), cs, kt)

\* TracksMatcher.__init__: the matchers of a search string, or the exception
\* the constructor is left with
TracksMatcher(s, cs, kt) ==
    LET toks == tokenize_query(s)
    IN  IF toks.exc # "none" THEN toks
        ELSE LET structured == red(toks.val, 1)
             IN  IF structured.exc # "none" THEN structured
                 ELSE tokens_to_matchers(Lst(optimize_tokens(structured.val)),
                                         <<>>, cs, kt)

-----------------------------------------------------------------------------
(* search_tracks *)

\* search_tracks with the loop over trackmatchers left after the first one
search_tracks_body_first(tms, i, track, cs, on_tags, order) ==
    IF i > Len(tms) THEN [yield |-> TRUE, on_tags |-> on_tags]
    ELSE LET r == TracksMatcher_match(tms[i], 1, track, cs, on_tags, order)
         IN  [yield |-> r.res, on_tags |-> r.on_tags]

\* the for loop over trackmatchers for one SearchResultTrack, from matcher
\* i on: whether the track is yielded, and its on_tags afterwards
RECURSIVE search_tracks_body(_, _, _, _, _, _)
search_tracks_body(tms, i, track, cs, on_tags, order) ==
    IF i > Len(tms) THEN [yield |-> TRUE, on_tags |-> on_tags]
    ELSE LET r == TracksMatcher_match(tms[i], 1, track, cs, on_tags, order)
         IN  IF ~r.res THEN [yield |-> FALSE, on_tags |-> r.on_tags]
             ELSE search_tracks_body(tms, i + 1, track, cs, r.on_tags, order)

-----------------------------------------------------------------------------
(* The inputs of the model: tags, tracks, search strings *)

artist == <<"a", "r", "t", "i", "s", "t">>

album == <<"a", "l", "b", "u", "m">>

tagA == <<"a">>

Tool == <<"T", "o", "o", "l">>

Lateralus == <<"L", "a", "t", "e", "r", "a", "l", "u", "s">>

Undertow == <<"U", "n", "d", "e", "r", "t", "o", "w">>

NIN == <<"N", "I", "N">>


R1 == (artist :> StrVal(Tool)) @@ (album :> StrVal(Lateralus))

R2 == (artist :> StrVal(Tool)) @@ (album :> StrVal(Undertow))

R3 == (artist :> StrVal(NIN))

\* album only holds an "o"
R4 == (artist :> StrVal(NIN)) @@ (album :> StrVal(Undertow))

T5 == (tagA :> StrVal(<<"a">>))

\* a multi-valued tag
T6 == (tagA :> ListVal(<< <<"b">>, <<"a", "!">> >>))

T7 == (tagA :> StrVal(NullString)) @@ (artist :> StrVal(<<"A">>))

\* an element of trackiter: a Track, or a SearchResultTrack of an earlier
\* search
Plain(t) == [track |-> t, wrapped |-> FALSE, on_tags |-> <<>>]

Wrapped(t, on) == [track |-> t, wrapped |-> TRUE, on_tags |-> on]

QToolNotLateralus == <<"a", "r", "t", "i", "s", "t", "=", "T", "o", "o", "l", " ", "!", "a", "l", "b", "u", "m", "=", "L", "a", "t", "e", "r", "a", "l", "u", "s">>

QToolSpacedNotLateralus == <<"a", "r", "t", "i", "s", "t", "=", "T", "o", "o", "l", " ", "!", " ", "a", "l", "b", "u", "m", "=", "L", "a", "t", "e", "r", "a", "l", "u", "s">>

QToolLateralus == <<"a", "r", "t", "i", "s", "t", "=", "T", "o", "o", "l", " ", "a", "l", "b", "u", "m", "=", "L", "a", "t", "e", "r", "a", "l", "u", "s">>

QNinOrTool == <<"a", "r", "t", "i", "s", "t", "=", "=", "N", "I", "N", " ", "|", " ", "a", "r", "t", "i", "s", "t", "=", "=", "T", "o", "o", "l">>

QArtistTool == <<"a", "r", "t", "i", "s", "t", "=", "T", "o", "o", "l">>

QGroupTool == <<"(", " ", "a", "r", "t", "i", "s", "t", "=", "T", "o", "o", "l", " ", ")">>

QGroupThenNin == <<"(", " ", "a", "r", "t", "i", "s", "t", "=", "T", "o", "o", "l", " ", "a", "l", "b", "u", "m", "=", "L", "a", "t", "e", "r", "a", "l", "u", "s", " ", ")", " ", "a", "r", "t", "i", "s", "t", "=", "N", "I", "N">>

QCloseOpen == <<")", " ", "(", " ", "a">>

QGroupOr == <<"(", " ", "|", " ", "a", " ", ")">>

QNotNotTool == <<"!", "!", "a", "r", "t", "i", "s", "t", "=", "T", "o", "o", "l">>

QSpacedNotNotA == <<"!", " ", "!", " ", "a", "=", "a">>

QTrailingBackslash == <<"a", "b", "c", "\\">>

QOpenQuote == <<"\"", "a", "b", "c">>

QArtistNull == <<"a", "r", "t", "i", "s", "t", "=", "=", "_", "_", "n", "u", "l", "l", "_", "_">>

QKeywordTool == <<"T", "o", "o", "l">>

QKeywordO == <<"o">>

QTwiceArtist == <<"a", "r", "t", "i", "s", "t", "=", "T", "o", "o", "l", " ", "a", "r", "t", "i", "s", "t", "=", "o">>

QOrThenLeaf == <<"a", "l", "b", "u", "m", "=", "o", " ", "|", " ", "a", "l", "b", "u", "m", "=", "a", " ", "a", "r", "t", "i", "s", "t", "=", "T", "o", "o", "l">>

QKeywordOThenLeaf == <<"o", " ", "a", "r", "t", "i", "s", "t", "=", "N">>

QNotGroup == <<"!", " ", "(", " ", "a", "=", "a", " ", ")">>


ExampleQueries ==
    {QToolNotLateralus,
     QToolSpacedNotLateralus,
     QToolLateralus,
     QNinOrTool,
     QArtistTool,
     QGroupTool,
     QGroupThenNin,
     QCloseOpen,
     QGroupOr,
     QNotNotTool,
     QSpacedNotNotA,
     QTrailingBackslash,
     QOpenQuote,
     QArtistNull,
     QKeywordTool,
     QKeywordO,
     QTwiceArtist,
     QNotGroup,
     QOrThenLeaf,
     QKeywordOThenLeaf}

Alphabet == {" ", "(", ")", "!", "|", "\\", "\"", "=", "a"}

BoundedQueries == UNION {[1..len -> Alphabet] : len \in 0..MaxLen}

Queries == ExampleQueries \cup BoundedQueries

\* the arguments next to the search string: case_sensitive, keyword_tags,
\* trackiter, and the searches of the TracksMatchers that stand before the
\* one of the search string in trackmatchers
Configs ==
    { [case_sensitive |-> TRUE, keyword_tags |-> <<artist, album>>,
       trackiter |-> <<Plain(R1), Plain(R2), Plain(R3)>>, extra |-> <<>>],
      [case_sensitive |-> FALSE, keyword_tags |-> <<tagA>>,
       trackiter |-> <<Plain(T5), Plain(T6), Plain(R1), Plain(T7)>>,
       extra |-> <<>>],
      [case_sensitive |-> TRUE, keyword_tags |-> <<>>,
       trackiter |-> <<>>, extra |-> <<>>],
      [case_sensitive |-> TRUE, keyword_tags |-> <<tagA, artist>>,
       trackiter |-> <<Plain(T6), Wrapped(R2, <<artist>>), Plain(T5), Plain(R4)>>,
       extra |-> << <<"a">> >>] }

-----------------------------------------------------------------------------
(* One search: search_tracks_from_string, and search_tracks with more than *)
(* one TracksMatcher                                                       *)

\* the orders in which iterating over a set of keyword tags can give them
Orders(kt) ==
    {[i \in 1..Len(kt) |-> kt[f[i]]] : f \in Permutations(1..Len(kt))}

\* the TracksMatchers the caller built before from the searches in extra
RECURSIVE ExtraMatchers(_, _, _)
ExtraMatchers(ex, cs, kt) ==
    IF ex = <<>> THEN <<>>
    ELSE <<TracksMatcher(Head(ex), cs, kt).val>>
         \o ExtraMatchers(Tail(ex), cs, kt)

\* the argument trackmatchers of search_tracks
trackmatchers == ExtraMatchers(extra, case_sensitive, keyword_tags) \o <<matchers>>

Init ==
    /\ search \in Queries
    /\ \E c \in Configs :
         /\ case_sensitive = c.case_sensitive
         /\ keyword_tags = c.keyword_tags
         /\ trackiter = c.trackiter
         /\ extra = c.extra
    /\ pc = "new"
    /\ tokens = <<>>
    /\ newsearch = <<>>
    /\ exc = "none"
    /\ matchers = <<>>
    /\ n = 0
    /\ yielded = <<>>
    /\ mode = "single"
    /\ tags = <<>>
    /\ running = 0
    /\ pass = <<>>

\* tokens = self.__tokenize_query(search_string)
Tokenize ==
    /\ pc = "new"
    /\ LET st == tokenize_scan(search)
       IN  /\ tokens' = st.tokens
           /\ newsearch' = st.newsearch
           /\ exc' = st.exc
           /\ pc' = IF st.exc = "none" THEN "tokenized" ELSE "tokenize_raised"
    /\ UNCHANGED <<inputs, matchers, n, yielded, shared>>

\* tokens = self.__red(tokens)
Structure ==
    /\ pc = "tokenized"
    /\ LET r == red(tokens, 1)
       IN  /\ tokens' = IF r.exc = "none" THEN r.val ELSE tokens
           /\ exc' = r.exc
           /\ pc' = IF r.exc = "none" THEN "structured" ELSE "red_raised"
    /\ UNCHANGED <<inputs, newsearch, matchers, n, yielded, shared>>

\* tokens = self.__optimize_tokens(tokens)
Optimize ==
    /\ pc = "structured"
    /\ tokens' = optimize_tokens(tokens)
    /\ pc' = "optimized"
    /\ UNCHANGED <<inputs, newsearch, exc, matchers, n, yielded, shared>>

\* self.matchers = self.__tokens_to_matchers(tokens)
Compile ==
    /\ pc = "optimized"
    /\ LET r == tokens_to_matchers(Lst(tokens), <<>>, case_sensitive, keyword_tags)
       IN  /\ matchers' = r.val
           /\ exc' = r.exc
           /\ pc' = IF r.exc = "none" THEN "compiled" ELSE "compile_raised"
    /\ UNCHANGED <<inputs, tokens, newsearch, n, yielded, shared>>

\* search_tracks takes the next track from trackiter and yields it or not
SearchNext ==
    /\ pc = "compiled"
    /\ n < Len(trackiter)
    /\ \E order \in Orders(keyword_tags) :
         LET srtr == trackiter[n + 1]
             r == search_tracks_body(trackmatchers, 1, srtr.track, case_sensitive,
                                     srtr.on_tags, order)
         IN  yielded' = IF r.yield
                        THEN Append(yielded, [index |-> n + 1, track |-> srtr.track,
                                              on_tags |-> r.on_tags])
                        ELSE yielded
    /\ n' = n + 1
    /\ UNCHANGED <<inputs, pc, tokens, newsearch, exc, matchers, shared>>

\* trackiter is exhausted: the generator returns
SearchEnd ==
    /\ pc = "compiled"
    /\ n = Len(trackiter)
    /\ pc' = "done"
    /\ UNCHANGED <<inputs, tokens, newsearch, exc, matchers, n, yielded, shared>>

Next ==
    \/ Tokenize
    \/ Structure
    \/ Optimize
    \/ Compile
    \/ SearchNext
    \/ SearchEnd

Spec == Init /\ [][Next]_vars

\* the search has left its caller with an exception
Raised == pc \in {"tokenize_raised", "red_raised", "compile_raised"}

-----------------------------------------------------------------------------
(* Vocabulary of the properties *)

Range(seq) == {seq[i] : i \in 1..Len(seq)}

OperatorChars == {"(", ")", "!", "|"}

QuotingChars == {"\\", "\""}

\* a string written without quote and backslash: every character of it is
\* unquoted and unescaped
Unquoted(s) == \A i \in 1..Len(s) : s[i] \notin QuotingChars

\* a single plain term: tag==value, tag=value or a keyword
IsTerm(s) ==
    /\ s # <<>>
    /\ \A i \in 1..Len(s) : s[i] \notin OperatorChars \cup QuotingChars \cup {" "}

\* one or more plain terms with single spaces between them
PlainTerms(s) ==
    /\ s # <<>>
    /\ s[1] # " "
    /\ s[Len(s)] # " "
    /\ \A i \in 1..Len(s) : s[i] \notin OperatorChars \cup QuotingChars
    /\ \A i \in 1..(Len(s) - 1) : ~(s[i] = " " /\ s[i + 1] = " ")

\* every matcher of the TracksMatcher ms matches the track
Accepts(ms, track) == \A i \in 1..Len(ms) : Match(ms[i], track, case_sensitive)

\* the positions in trackiter of the tracks that the other TracksMatchers
\* of the search and the matchers ms accept
MatchedSet(ms) ==
    {j \in 1..Len(trackiter) :
        /\ \A e \in Range(ExtraMatchers(extra, case_sensitive, keyword_tags)) :
             Accepts(e, trackiter[j].track)
        /\ Accepts(ms, trackiter[j].track)}

\* the positions in trackiter of the tracks yielded
YieldedSet == {yielded[i].index : i \in 1..Len(yielded)}

\* what the search for the string s gives on the tracks of this search
ResultOf(s) ==
    LET tm == TracksMatcher(s, case_sensitive, keyword_tags)
    IN  IF tm.exc # "none" THEN [raised |-> TRUE, set |-> {}]
        ELSE [raised |-> FALSE, set |-> MatchedSet(tm.val)]

-----------------------------------------------------------------------------
(* C1 *)

\* C1: every unquoted, unescaped (, ), ! or | is a token of its own, also
\* when written next to other text, so that artist=Tool !album=Lateralus
\* yields R2 only.  Stated for the searches without quote and backslash.
C1_OperatorTokens ==
    /\ (pc = "tokenized" /\ Unquoted(search)) =>
         \A i \in 1..Len(tokens) :
            (\E j \in 1..Len(tokens[i].s) : tokens[i].s[j] \in OperatorChars)
              => Len(tokens[i].s) = 1
    /\ (search = QToolNotLateralus /\ trackiter = <<Plain(R1), Plain(R2), Plain(R3)>>) =>
         /\ ~Raised
         /\ pc = "done" => YieldedSet = {2}

-----------------------------------------------------------------------------
(* C2 *)

\* C2: search_tracks yields exactly the tracks that every matcher of
\* trackmatchers accepts, each once and in the order of trackiter; nothing
\* is yielded from an empty trackiter.
C2_SearchTracksFilter ==
    pc \in {"compiled", "done"} =>
      /\ YieldedSet = {j \in 1..n : \A k \in 1..Len(trackmatchers) :
                                       Accepts(trackmatchers[k], trackiter[j].track)}
      /\ \A i \in 1..Len(yielded) : yielded[i].track = trackiter[yielded[i].index].track
      /\ \A i \in 1..(Len(yielded) - 1) : yielded[i].index < yielded[i + 1].index
      /\ (trackiter = <<>> => yielded = <<>>)

\* a search over two TracksMatchers has yielded some tracks and dropped others
C2_Witness ==
    /\ pc = "done"
    /\ Len(trackmatchers) = 2
    /\ matchers # <<>>
    /\ yielded # <<>>
    /\ Len(yielded) < Len(trackiter)

-----------------------------------------------------------------------------
(* C3 *)

\* C3: no search string makes TracksMatcher or search_tracks_from_string
\* raise.
C3_NeverRaises == ~Raised

-----------------------------------------------------------------------------
(* C4 *)

\* the tags the top-level matchers of the TracksMatcher ms put into on_tags
\* when ms matches the track
TopLevelTags(ms, track) ==
    UNION {IF ~TagIsNone(ms[i]) THEN {ms[i].tag}
           ELSE IF HasTags(ms[i]) THEN ManyTags(ms[i], track, case_sensitive)
           ELSE {} : i \in 1..Len(ms)}

\* the tags of the leaf matchers in and under m that match the track
RECURSIVE SucceededTags(_, _)
SucceededTags(m, track) ==
    IF m.k \in {"exact", "in"}
    THEN IF LeafMatch(m, track, case_sensitive) THEN {m.tag} ELSE {}
    ELSE IF m.k = "many" THEN ManyTags(m, track, case_sensitive)
    ELSE UNION {SucceededTags(m.subs[i], track) : i \in 1..Len(m.subs)}

NoDuplicates(seq) == \A i, j \in 1..Len(seq) : seq[i] = seq[j] => i = j

\* C4 as stated: on_tags of a matched track holds the tag of every leaf and
\* keyword matcher that succeeded on it, also of one inside an OR, a NOT or
\* a group, and no tag twice.
C4_EveryLeafTag ==
    \A i \in 1..Len(yielded) :
       /\ \A k \in 1..Len(trackmatchers) : \A j \in 1..Len(trackmatchers[k]) :
             SucceededTags(trackmatchers[k][j], yielded[i].track)
               \subseteq Range(yielded[i].on_tags)
       /\ NoDuplicates(yielded[i].on_tags)

\* C4 amended: on_tags of a matched track holds, next to what it held
\* before the search, exactly the tags of the top-level leaf matchers and
\* the tags on which the top-level keyword matchers succeeded, and no tag
\* twice.
C4_TopLevelTags ==
    \A i \in 1..Len(yielded) :
       /\ Range(yielded[i].on_tags) =
            Range(trackiter[yielded[i].index].on_tags)
            \cup UNION {TopLevelTags(trackmatchers[k], yielded[i].track) :
                          k \in 1..Len(trackmatchers)}
       /\ NoDuplicates(yielded[i].on_tags)

\* a track was matched by an OR whose leaf succeeded and by a keyword
\* matcher, and on_tags holds the keyword's tag only
C4_Witness ==
    \E i \in 1..Len(yielded) :
       /\ yielded[i].on_tags # <<>>
       /\ \E j \in 1..Len(matchers) :
            /\ matchers[j].k \in {"or", "not", "multi"}
            /\ SucceededTags(matchers[j], yielded[i].track) # {}
            /\ ~(SucceededTags(matchers[j], yielded[i].track)
                   \subseteq Range(yielded[i].on_tags))

-----------------------------------------------------------------------------
(* C5 *)

\* C5: negating a term twice, written !!X or ! ! X, matches the tracks that
\* X matches.
C5_NotInvolutive ==
    (pc = "done" /\ IsTerm(search)) =>
       /\ ResultOf(<<"!", "!">> \o search) = [raised |-> FALSE, set |-> YieldedSet]
       /\ ResultOf(<<"!", " ", "!", " ">> \o search)
            = [raised |-> FALSE, set |-> YieldedSet]

-----------------------------------------------------------------------------
(* C6 *)

\* the orders the tokens of a list can be put in
PermutationsOf(toks) ==
    {[i \in 1..Len(toks) |-> toks[f[i]]] : f \in Permutations(1..Len(toks))}

\* the tracks of trackiter that the TracksMatcher ms says it matches
MatchSet(ms) ==
    {j \in 1..Len(trackiter) :
        TracksMatcher_match(ms, 1, trackiter[j].track, case_sensitive,
                            <<>>, keyword_tags).res}

\* whether compiling the top-level tokens toks raises, and which tracks the
\* TracksMatcher matches if not
CompiledOutcome(toks) ==
    LET c == tokens_to_matchers(Lst(toks), <<>>, case_sensitive, keyword_tags)
    IN  IF c.exc # "none" THEN [raised |-> TRUE, set |-> {}]
        ELSE [raised |-> FALSE, set |-> MatchSet(c.val)]

\* the TracksMatcher compiled from any order of the top-level tokens
\* matches the tracks that the one of this search matches
C6_AnyOrderSameSet ==
    ((pc = "compiled" /\ n = 0) \/ pc = "compile_raised") =>
       \A p \in PermutationsOf(tokens) :
          CompiledOutcome(p) = IF pc = "compile_raised"
                               THEN [raised |-> TRUE, set |-> {}]
                               ELSE [raised |-> FALSE, set |-> MatchSet(matchers)]

\* the optimizer gives the same top-level tokens, each as it was, in the
\* order of their lengths
C6_OptimizerReorders ==
    pc = "structured" =>
       /\ tokens' \in PermutationsOf(tokens)
       /\ \A i \in 1..(Len(tokens') - 1) : PyLen(tokens'[i]) <= PyLen(tokens'[i + 1])

\* C6: AND does not depend on the order: every permutation of the
\* structured top-level tokens compiles to a TracksMatcher that matches the
\* same tracks, and the optimizer only permutes the top-level tokens and
\* leaves what is inside an OR, NOT or parenthesis node as it is.
C6_AndOrderIndependent ==
    /\ []C6_AnyOrderSameSet
    /\ [][C6_OptimizerReorders]_vars

\* the optimizer has moved a node in front of a longer term, and the
\* TracksMatcher has matched some tracks and not others
C6_Witness ==
    /\ pc = "done"
    /\ \E i \in 1..(Len(tokens) - 1) :
          tokens[i].k = "list" /\ tokens[i + 1].k = "str"
    /\ yielded # <<>>
    /\ Len(yielded) < Len(trackiter)

-----------------------------------------------------------------------------
(* C8 *)

\* C8: the search ( t1 ... tn ) of plain terms, alone or followed by more
\* plain terms, compiles and matches the tracks that all the terms match:
\* the tracks that the same terms written without the parentheses match.
C8_GroupIsAnd ==
    ((pc = "done" \/ Raised) /\ Len(search) >= 5) =>
       \A k \in 5..Len(search) :
          LET inner == SubSeq(search, 3, k - 2)
              after == SubSeq(search, k + 1, Len(search))
          IN  ( /\ SubSeq(search, 1, 2) = <<"(", " ">>
                /\ SubSeq(search, k - 1, k) = <<" ", ")">>
                /\ PlainTerms(inner)
                /\ after = <<>> \/ (after[1] = " " /\ PlainTerms(Tail(after))) )
              => /\ ~Raised
                 /\ [raised |-> FALSE, set |-> YieldedSet] = ResultOf(inner \o after)

-----------------------------------------------------------------------------
(* C9 *)

\* C9: for every token sequence the structurer comes to an end and returns
\* top-level tokens without the strings (, ! and |.
C9_StructurerReturns ==
    /\ pc # "red_raised"
    /\ pc = "structured" =>
         ~(Contains(tokens, OpenParen) \/ Contains(tokens, NotOp)
             \/ Contains(tokens, OrOp))

-----------------------------------------------------------------------------
(* C10 *)

\* C10: when the scan ends, the token in progress has been flushed, so that
\* abc\ and "abc each give a token that contains abc.
C10_NothingLost ==
    pc = "tokenized" =>
       /\ newsearch = <<>>
       /\ search \in {QTrailingBackslash, QOpenQuote} =>
            \E i \in 1..Len(tokens) : Find(tokens[i].s, <<"a", "b", "c">>) # -1

-----------------------------------------------------------------------------
(* Two passes of search_tracks over one TracksMatcher.  A pass is a        *)
(* search_tracks generator with its own trackiter; the TracksMatcher, and  *)
(* with it the field tags of its _ManyMultiMetaMatchers, is the same       *)
(* object in both.  In mode "threads" each pass runs in a thread and the   *)
(* threads are switched between any two steps; in mode "generators" one    *)
(* caller pulls the two generators in any order.  The steps of a pass are  *)
(* the calls and attribute accesses of TracksMatcher.match and             *)
(* _ManyMultiMetaMatcher.match.                                            *)

Passes == {1, 2}

RaceQueries == {QKeywordO, QKeywordTool, QKeywordOThenLeaf}

RaceStreams ==
    {<<Plain(R1)>>, <<Plain(R4)>>, <<Plain(R3), Plain(R1)>>, <<Plain(R2), Plain(R4)>>}

\* a generator stands still only at its yield: a pass that is between
\* next() and yield keeps the caller until it yields or returns
MayStep_any(p) == TRUE

MayStep(p) == mode = "threads" \/ running \in {0, p}

\* running after a step of pass p that does not end at a yield
Holds(p) == IF mode = "generators" THEN p ELSE 0

InitShared ==
    /\ search \in RaceQueries
    /\ case_sensitive = TRUE
    /\ keyword_tags = <<artist, album>>
    /\ trackiter = <<>>
    /\ extra = <<>>
    /\ pc = "shared"
    /\ tokens = <<>>
    /\ newsearch = <<>>
    /\ exc = "none"
    /\ matchers = TracksMatcher(search, case_sensitive, keyword_tags).val
    /\ n = 0
    /\ yielded = <<>>
    /\ mode \in {"threads", "generators"}
    /\ tags = [i \in 1..Len(matchers) |-> {}]
    /\ running = 0
    /\ pass \in [Passes -> {[trackiter |-> t, n |-> 0, pc |-> "suspended",
                             track |-> <<>>, on_tags |-> <<>>, i |-> 0, j |-> 0,
                             matched |-> FALSE, yielded |-> <<>>] : t \in RaceStreams}]

\* next() on the generator: the for loop of search_tracks goes on
Resume(p) ==
    /\ pass[p].pc = "suspended"
    /\ MayStep(p)
    /\ pass' = [pass EXCEPT ![p].pc = "fetch"]
    /\ running' = Holds(p)
    /\ UNCHANGED tags

\* for srtr in trackiter: the next track, wrapped, or the end of the pass
Fetch(p) ==
    /\ pass[p].pc = "fetch"
    /\ MayStep(p)
    /\ IF pass[p].n = Len(pass[p].trackiter)
       THEN /\ pass' = [pass EXCEPT ![p].pc = "stopped"]
            /\ running' = 0
       ELSE /\ pass' = [pass EXCEPT ![p].pc = "call",
                                    ![p].n = @ + 1,
                                    ![p].track = pass[p].trackiter[pass[p].n + 1].track,
                                    ![p].on_tags = pass[p].trackiter[pass[p].n + 1].on_tags,
                                    ![p].i = 1]
            /\ running' = Holds(p)
    /\ UNCHANGED tags

\* the loop of TracksMatcher.match is through: match returns True and
\* search_tracks yields the track
Yield(p) ==
    /\ pass[p].pc = "call"
    /\ pass[p].i > Len(matchers)
    /\ MayStep(p)
    /\ pass' = [pass EXCEPT ![p].pc = "suspended",
                            ![p].yielded = Append(@, [track |-> pass[p].track,
                                                      on_tags |-> pass[p].on_tags])]
    /\ running' = 0
    /\ UNCHANGED tags

\* ma.match(srtrack) for a matcher without the field tags
CallMatch(p) ==
    /\ pass[p].pc = "call"
    /\ pass[p].i <= Len(matchers)
    /\ ~HasTags(matchers[pass[p].i])
    /\ MayStep(p)
    /\ pass' = [pass EXCEPT ![p].pc =
                   IF Match(matchers[pass[p].i], pass[p].track, case_sensitive)
                   THEN "record" ELSE "fetch"]
    /\ running' = Holds(p)
    /\ UNCHANGED tags

\* _ManyMultiMetaMatcher.match is entered: self.tags = set()
CallMany(p) ==
    /\ pass[p].pc = "call"
    /\ pass[p].i <= Len(matchers)
    /\ HasTags(matchers[pass[p].i])
    /\ MayStep(p)
    /\ tags' = [tags EXCEPT ![pass[p].i] = {}]
    /\ pass' = [pass EXCEPT ![p].pc = "child", ![p].j = 1, ![p].matched = FALSE]
    /\ running' = Holds(p)

\* one round of the loop of _ManyMultiMetaMatcher.match, or its return
Child(p) ==
    /\ pass[p].pc = "child"
    /\ MayStep(p)
    /\ LET ma == matchers[pass[p].i]
           j == pass[p].j
       IN  IF j > Len(ma.subs)
           THEN /\ pass' = [pass EXCEPT ![p].pc = IF pass[p].matched THEN "record"
                                                   ELSE "fetch"]
                /\ UNCHANGED tags
           ELSE IF LeafMatch(ma.subs[j], pass[p].track, case_sensitive)
                   /\ ma.subs[j].tag # <<>>
           THEN /\ pass' = [pass EXCEPT ![p].j = j + 1, ![p].matched = TRUE]
                /\ tags' = [tags EXCEPT ![pass[p].i] = @ \cup {ma.subs[j].tag}]
           ELSE /\ pass' = [pass EXCEPT ![p].j = j + 1]
                /\ UNCHANGED tags
    /\ running' = Holds(p)

\* TracksMatcher.match reads ma.tag or ma.tags and fills on_tags
Record(p) ==
    /\ pass[p].pc = "record"
    /\ MayStep(p)
    /\ LET ma == matchers[pass[p].i]
       IN  \E order \in Orders(keyword_tags) :
             pass' = [pass EXCEPT
                        ![p].pc = "call",
                        ![p].i = @ + 1,
                        ![p].on_tags =
                            IF ~TagIsNone(ma) THEN AppendNew(@, <<ma.tag>>)
                            ELSE AppendNew(@, Restrict(order, tags[pass[p].i]))]
    /\ running' = Holds(p)
    /\ UNCHANGED tags

NextShared ==
    /\ \E p \in Passes :
          \/ Resume(p)
          \/ Fetch(p)
          \/ Yield(p)
          \/ CallMatch(p)
          \/ CallMany(p)
          \/ Child(p)
          \/ Record(p)
    /\ UNCHANGED <<inputs, pc, tokens, newsearch, exc, matchers, n, yielded, mode>>

SpecShared == InitShared /\ [][NextShared]_vars

-----------------------------------------------------------------------------
(* C7 *)

\* the on_tags a pass that runs alone can leave on a track it yields
AloneOnTags(track) ==
    {TracksMatcher_match(matchers, 1, track, case_sensitive, <<>>, order).on_tags :
        order \in Orders(keyword_tags)}

\* a yielded track has on_tags that no pass run alone gives it
Differs(p) ==
    \E i \in 1..Len(pass[p].yielded) :
       pass[p].yielded[i].on_tags \notin AloneOnTags(pass[p].yielded[i].track)

\* a yielded track has a tag in on_tags on which no matcher succeeded for it
ForeignTag(p) ==
    \E i \in 1..Len(pass[p].yielded) :
       \E t \in Range(pass[p].yielded[i].on_tags) :
          t \notin UNION {SucceededTags(matchers[k], pass[p].yielded[i].track) :
                            k \in 1..Len(matchers)}

\* the two passes have tracks on which the keyword succeeds in different tags
DifferentTags ==
    \E i \in 1..Len(pass[1].trackiter), j \in 1..Len(pass[2].trackiter) :
       \E k \in 1..Len(matchers) :
          /\ HasTags(matchers[k])
          /\ Accepts(matchers, pass[1].trackiter[i].track)
          /\ Accepts(matchers, pass[2].trackiter[j].track)
          /\ ManyTags(matchers[k], pass[1].trackiter[i].track, case_sensitive)
               # ManyTags(matchers[k], pass[2].trackiter[j].track, case_sensitive)

\* C7 as stated, for two generators: pulled alternately to their ends over
\* tracks on which the keyword succeeds in different tags, the passes leave
\* some yielded track with on_tags that a pass alone does not give it.
C7_GeneratorsRace ==
    ( /\ mode = "generators"
      /\ DifferentTags
      /\ \A p \in Passes : pass[p].pc = "stopped" )
    => \E p \in Passes : Differs(p)

\* C7 amended: two generators over one TracksMatcher that one caller pulls
\* in any order do not race: every yielded track has the on_tags a pass
\* alone gives it.  (That two threads do race is the state C7_Witness.)
C7_GeneratorsDoNotRace ==
    mode = "generators" => \A p \in Passes : ~Differs(p)

\* two threads: a yielded track has got a tag that matched only the track
\* of the other pass
C7_Witness ==
    /\ mode = "threads"
    /\ \E p \in Passes : Differs(p) /\ ForeignTag(p)

====
